---- MODULE Spec2Model ----
(***************************************************************************)
(* Contour extraction and region classification of the STL generator:      *)
(*   _group_contours_into_objects  (stl-generator/app/font_utils.py)       *)
(*   _find_contours, _trace_boundary  (stl-generator/app/vectorize.py)     *)
(*                                                                         *)
(* Coordinates are integers that count sixteenths of a unit, so every      *)
(* coordinate is an exact binary float and an area counts 1/256 of a       *)
(* square unit.  Positions in Python lists and dicts are kept 0-based, as  *)
(* in the source; a TLA+ sequence s holds Python's s[k] at s[k + 1].       *)
(***************************************************************************)
EXTENDS Integers, Sequences, FiniteSets, TLC

VARIABLES
    mode,            \* which function the behaviour runs: "group", "trace", "simplify", "fit",
                     \* "vectorize", "calls" (a sequence of traces), "recurse" (the
                     \* simplifier call by call)
    \* ---- _group_contours_into_objects ----
    contours,        \* the argument: a sequence of contours (sequences of points)
    pc,              \* "start" before the call, "done" after it returned
    ret,             \* the return statement taken: "none", "trivial", "fallback", "main"
    items,           \* items after the sort: records [i, poly]
    parent_pos,      \* dict position -> position of the parent
    depth,           \* dict position -> nesting depth
    groups_map,      \* dict outer position -> list of hole positions
    result,          \* returned groups
    result_indices,  \* returned index groups
    polys,           \* ghost: the repaired Shapely polygon of every input contour
    \* ---- _find_contours / _trace_boundary ----
    w, h,            \* binary.shape is (h, w)
    fg,              \* the cells <<x, y>> of the raster with binary > 0
    t_pc,            \* "scan": in the row-major scan; "trace": inside _trace_boundary
    scan,            \* cells the scan has passed; the scan is at x = scan % w + 1, y = scan \div w + 1
    visited,         \* the visited set of this call (padded coordinates)
    t_contours,      \* the list `contours` of _find_contours
    start,           \* (start_x, start_y) of the running trace
    cur,             \* (x, y) of the running trace
    direction,       \* direction of the last move of the running trace
    steps,           \* iterations of the follow loop of the running trace
    contour,         \* the contour of the running trace
    traces,          \* ghost: what every finished call of _trace_boundary returned
    \* ---- _douglas_peucker, _contour_to_svg_path ----
    points,          \* the argument points of the function that runs
    tolerance,       \* the argument tolerance, counted in halves of a unit
    dp_pc,           \* "start", "done" after the call, "again" after a second call on its result
    simplified,      \* what the call returned
    resimplified,    \* what the call on `simplified` returned
    kept,            \* ghost: the positions in `points` of the points returned
    \* ---- _contour_to_svg_path ----
    fit_pc,          \* "start" before the call, "done" after it returned
    path,            \* the returned path data: the sequence of its commands
    \* ---- _vectorize_python (its raster is w, h, fg) ----
    min_area,            \* the argument min_area
    simplify_tolerance,  \* the argument simplify_tolerance, in halves of a unit
    scale,               \* the arguments <<scale_x, scale_y>>
    v_pc,                \* "tracing", "traced", "filtered", "simplified", "done"
    v_contours,          \* the local `contours`
    v_simplified,        \* the local `simplified`
    svg_paths,           \* the local `svg_paths`: the path data of every <path>
    stages,              \* ghost: the stages in the order they ran
    \* ---- a sequence of calls of _find_contours ----
    calls,           \* todo: the rasters of the calls still to make; passed, returned:
                     \* the raster and the return value of every call made so far
    \* ---- the recursion of _douglas_peucker ----
    dp_stack,        \* the frames of the running calls, the innermost last
    dp_ret,          \* the value the call that returned last has returned
    dp_log           \* ghost: the argument and the return value of every returned call

gvars == <<contours, pc, ret, items, parent_pos, depth, groups_map, result, result_indices, polys>>
tvars == <<w, h, fg, t_pc, scan, visited, t_contours, start, cur, direction, steps, contour,
          traces>>
svars == <<points, tolerance, dp_pc, simplified, resimplified, kept>>
fvars == <<fit_pc, path>>
pvars == <<min_area, simplify_tolerance, scale, v_pc, v_contours, v_simplified, svg_paths,
          stages>>
cvars == <<calls>>
rvars == <<dp_stack, dp_ret, dp_log>>
vars == <<mode, gvars, tvars, svars, fvars, pvars, cvars, rvars>>

\* ------------------------------------------------------------------ bounds
\* Largest corner coordinate of an input square, in eighths of a unit.
Grid == 5
\* Largest number of contours in one call.
MaxContours == 3

\* ------------------------------------------------------------------ helpers
None == -1

Abs(v) == IF v < 0 THEN -v ELSE v

Min(a, b) == IF a <= b THEN a ELSE b
Max(a, b) == IF a >= b THEN a ELSE b

SetMin(S) == CHOOSE v \in S : \A u \in S : v <= u
SetMax(S) == CHOOSE v \in S : \A u \in S : v >= u

\* ------------------------------------------------------------------ contours
\* A closed axis-aligned rectangle outline, as the glyph and path sources
\* emit it (first point repeated at the end).
RectContour(x1, y1, x2, y2) ==
    << <<x1, y1>>, <<x2, y1>>, <<x2, y2>>, <<x1, y2>>, <<x1, y1>> >>

\* An open three-point outline: too short for the classifier.
ShortContour(x1, y1, x2, y2) == << <<x1, y1>>, <<x2, y1>>, <<x2, y2>> >>

\* ------------------------------------------------------------------ shapely
\* Shapely on the outlines above.  A polygon is its bounding box with twice
\* its shoelace area; for an axis-aligned rectangle that is the polygon.

\* The bounding box and the shoelace sum of the first k points of a ring of
\* n points.
RECURSIVE RingFold(_, _, _)
RingFold(coords, n, k) ==
    LET p == coords[k]
        q == coords[(k % n) + 1]
        term == p[1] * q[2] - q[1] * p[2]
    IN  IF k = 1
        THEN [minx |-> p[1], maxx |-> p[1], miny |-> p[2], maxy |-> p[2], sum |-> term]
        ELSE LET f == RingFold(coords, n, k - 1)
             IN  [minx |-> Min(f.minx, p[1]), maxx |-> Max(f.maxx, p[1]),
                  miny |-> Min(f.miny, p[2]), maxy |-> Max(f.maxy, p[2]),
                  sum |-> f.sum + term]

\* ShapelyPolygon(coords)
ShapelyPolygon(coords) ==
    LET f == RingFold(coords, Len(coords), Len(coords))
    IN  [is_empty |-> FALSE,
         minx |-> f.minx, maxx |-> f.maxx, miny |-> f.miny, maxy |-> f.maxy,
         area2 |-> Abs(f.sum)]

EmptyPolygon ==
    [is_empty |-> TRUE, minx |-> 0, maxx |-> 0, miny |-> 0, maxy |-> 0, area2 |-> 0]

\* poly.is_valid: a rectangle outline is a valid ring unless it has collapsed
\* to a segment or a point.
IsValid(poly) == poly.area2 > 0

\* poly.buffer(0) of a collapsed ring is the empty polygon.
Buffer0(poly) == IF poly.area2 > 0 THEN poly ELSE EmptyPolygon

\* poly.area < 0.01, the area counted in 1/256: area2 / 2 / 256 < 1 / 100.
AreaBelowThreshold(poly) == poly.area2 * 100 < 512

\* poly.representative_point() of a rectangle is its centre; kept doubled.
RepresentativePoint(poly) == <<poly.minx + poly.maxx, poly.miny + poly.maxy>>

\* poly.contains(rep): the point lies in the interior, not on the boundary.
Contains(poly, rep2) ==
    /\ ~poly.is_empty
    /\ 2 * poly.minx < rep2[1] /\ rep2[1] < 2 * poly.maxx
    /\ 2 * poly.miny < rep2[2] /\ rep2[2] < 2 * poly.maxy

\* ------------------------------------------------------------------ step 1
\* The polygon of one contour after the repair (lines 417-419).
ItemPoly(outline) ==
    LET poly0 == ShapelyPolygon(outline)
    IN  IF ~IsValid(poly0) THEN Buffer0(poly0) ELSE poly0

\* Mutant: the length test of the first loop is missing.
ItemSkippedNoLength(outline, poly) == poly.is_empty \/ AreaBelowThreshold(poly)

\* The loop body reaches a `continue` (lines 415-421).
ItemSkipped(outline, poly) ==
    \/ Len(outline) < 4
    \/ poly.is_empty
    \/ AreaBelowThreshold(poly)

\* ------------------------------------------------------------------ inputs
\* The inputs of one call: every square with corners on the diagonal of the
\* grid (coordinates in eighths, so doubled to count sixteenths), and one
\* outline of each kind the first loop skips: a collapsed one, one whose area
\* (1/256) is under the threshold, and a short one.
SquareContours ==
    {RectContour(2 * q[1], 2 * q[1], 2 * q[2], 2 * q[2]) :
        q \in {r \in (0..Grid) \X (0..Grid) : r[1] < r[2]}}

CollapsedContour == RectContour(0, 0, 0, 0)
TinyContour == RectContour(0, 0, 1, 1)

InputContours ==
    SquareContours \cup
    {CollapsedContour, TinyContour, ShortContour(0, 0, 2 * Grid, 2 * Grid)}

\* The repaired polygon of every contour of the input family.
InputPolygons == [c \in InputContours |-> ItemPoly(c)]

\* The first loop over the first k contours; the polygon of a contour is
\* looked up in the table above.
RECURSIVE BuildItems(_, _)
BuildItems(cs, k) ==
    IF k = 0 THEN <<>>
    ELSE LET poly == InputPolygons[cs[k]]
         IN  IF ItemSkipped(cs[k], poly) THEN BuildItems(cs, k - 1)
             ELSE Append(BuildItems(cs, k - 1), [i |-> k - 1, poly |-> poly])

\* items.sort(key=area, reverse=True): stable, equal areas keep input order.
RECURSIVE InsertItem(_, _)
InsertItem(sorted, it) ==
    IF sorted = <<>> THEN <<it>>
    ELSE LET last == sorted[Len(sorted)]
         IN  IF last.poly.area2 >= it.poly.area2 THEN Append(sorted, it)
             ELSE Append(InsertItem(SubSeq(sorted, 1, Len(sorted) - 1), it), last)

RECURSIVE SortItems(_, _)
SortItems(its, k) ==
    IF k = 0 THEN <<>> ELSE InsertItem(SortItems(its, k - 1), its[k])

\* ------------------------------------------------------------------ step 2
\* The inner loop `for j in range(i - 1, -1, -1)` from j downwards.
RECURSIVE ScanParent(_, _, _, _)
ScanParent(its, i, j, best_parent) ==
    IF j < 0 THEN best_parent
    ELSE LET rep == RepresentativePoint(its[i + 1].poly)
             take == /\ Contains(its[j + 1].poly, rep)
                     /\ \/ best_parent = None
                        \/ its[j + 1].poly.area2 < its[best_parent + 1].poly.area2
         IN  ScanParent(its, i, j - 1, IF take THEN j ELSE best_parent)

\* Mutant: the largest enclosing polygon wins instead of the smallest.
RECURSIVE ScanParentLargest(_, _, _, _)
ScanParentLargest(its, i, j, best_parent) ==
    IF j < 0 THEN best_parent
    ELSE LET rep == RepresentativePoint(its[i + 1].poly)
             take == /\ Contains(its[j + 1].poly, rep)
                     /\ \/ best_parent = None
                        \/ its[j + 1].poly.area2 > its[best_parent + 1].poly.area2
         IN  ScanParentLargest(its, i, j - 1, IF take THEN j ELSE best_parent)

BestParentLargest(its, i) == ScanParentLargest(its, i, i - 1, None)

\* Mutant: the containment test is missing, the nearest larger polygon wins.
BestParentUntested(its, i) == IF i > 0 THEN i - 1 ELSE None

BestParent(its, i) == ScanParent(its, i, i - 1, None)

\* The outer loop `for i in range(n)`: best_parent of positions 0..k-1.
RECURSIVE BestParents(_, _)
BestParents(its, k) ==
    IF k = 0 THEN <<>> ELSE Append(BestParents(its, k - 1), BestParent(its, k - 1))

\* parent_pos holds a key only where best_parent is not None.
ParentPos(its) ==
    LET bp == BestParents(its, Len(its))
    IN  [i \in {k \in 0..(Len(its) - 1) : bp[k + 1] # None} |-> bp[i + 1]]

\* ------------------------------------------------------------------ step 3
RECURSIVE DepthWalk(_, _, _)
DepthWalk(pp, current, d) ==
    IF current \in DOMAIN pp THEN DepthWalk(pp, pp[current], d + 1) ELSE d

\* Mutant: the walk stops at the parent instead of going on to a root.
DepthOfParentOnly(pp, n) == [i \in 0..(n - 1) |-> IF i \in DOMAIN pp THEN 1 ELSE 0]

DepthOf(pp, n) == [i \in 0..(n - 1) |-> DepthWalk(pp, i, 0)]

\* ------------------------------------------------------------------ step 4
\* Mutant: only depth 0 opens a group.
GroupStepRootOnly(gm, dp, pp, i) ==
    IF dp[i] = 0 THEN (i :> <<>>) @@ gm
    ELSE LET p == IF i \in DOMAIN pp THEN pp[i] ELSE None
         IN  IF p # None /\ p \in DOMAIN gm
             THEN [gm EXCEPT ![p] = Append(@, i)]
             ELSE gm

\* One iteration of the grouping loop.
GroupStep(gm, dp, pp, i) ==
    IF dp[i] % 2 = 0 THEN (i :> <<>>) @@ gm
    ELSE LET p == IF i \in DOMAIN pp THEN pp[i] ELSE None
         IN  IF p # None /\ p \in DOMAIN gm
             THEN [gm EXCEPT ![p] = Append(@, i)]
             ELSE gm

RECURSIVE BuildGroups(_, _, _)
BuildGroups(dp, pp, k) ==
    IF k = 0 THEN <<>> ELSE GroupStep(BuildGroups(dp, pp, k - 1), dp, pp, k - 1)

\* ------------------------------------------------------------------ step 5
RECURSIVE SortedKeys(_)
SortedKeys(S) ==
    IF S = {} THEN <<>> ELSE <<SetMin(S)>> \o SortedKeys(S \ {SetMin(S)})

\* Mutant: the holes are left out of the index group.
GroupIndicesOuterOnly(its, gm, outer_pos) == <<its[outer_pos + 1].i>>

GroupIndices(its, gm, outer_pos) ==
    <<its[outer_pos + 1].i>> \o
        [m \in 1..Len(gm[outer_pos]) |-> its[gm[outer_pos][m] + 1].i]

ResultIndices(its, gm) ==
    LET keys == SortedKeys(DOMAIN gm)
    IN  [k \in 1..Len(keys) |-> GroupIndices(its, gm, keys[k])]

ResultGroups(cs, indices) ==
    [k \in 1..Len(indices) |-> [m \in 1..Len(indices[k]) |-> cs[indices[k][m] + 1]]]

\* ------------------------------------------------------------------ the call
\* Mutant: the empty input is wrapped into a group as well.
TrivialGroupsWrapped(cs) == <<cs>>

\* groups = [contours] if contours else []
TrivialGroups(cs) == IF cs # <<>> THEN <<cs>> ELSE <<>>

\* Mutant: the index of the only contour is counted from 1.
TrivialIndicesFromOne(cs) == IF cs # <<>> THEN << <<1>> >> ELSE <<>>

\* indices = [[0]] if contours else []
TrivialIndices(cs) == IF cs # <<>> THEN << <<0>> >> ELSE <<>>

GroupContoursIntoObjects(cs) ==
    IF Len(cs) <= 1
    THEN [ret |-> "trivial",
          items |-> <<>>, parent_pos |-> <<>>, depth |-> <<>>, groups_map |-> <<>>,
          groups |-> TrivialGroups(cs),
          indices |-> TrivialIndices(cs)]
    ELSE LET built == BuildItems(cs, Len(cs))
             its == SortItems(built, Len(built))
         IN  IF its = <<>>
             THEN [ret |-> "fallback",
                   items |-> its, parent_pos |-> <<>>, depth |-> <<>>,
                   groups_map |-> <<>>,
                   groups |-> <<cs>>,
                   indices |-> << [m \in 1..Len(cs) |-> m - 1] >>]
             ELSE LET n == Len(its)
                      pp == ParentPos(its)
                      dp == DepthOf(pp, n)
                      gm == BuildGroups(dp, pp, n)
                      idx == ResultIndices(its, gm)
                  IN  [ret |-> "main",
                       items |-> its, parent_pos |-> pp, depth |-> dp,
                       groups_map |-> gm,
                       groups |-> ResultGroups(cs, idx),
                       indices |-> idx]

\* The sequences over S of length 0..n.
SeqsUpTo(S, n) == UNION {[1..k -> S] : k \in 0..n}

IdleTrace ==
    /\ w = 0 /\ h = 0 /\ fg = {}
    /\ t_pc = "idle"
    /\ scan = 0
    /\ visited = {}
    /\ t_contours = <<>>
    /\ start = <<0, 0>>
    /\ cur = <<0, 0>>
    /\ direction = 0
    /\ steps = 0
    /\ contour = <<>>
    /\ traces = <<>>

IdleDouglasPeucker ==
    /\ tolerance = 0
    /\ dp_pc = "idle"
    /\ simplified = <<>>
    /\ resimplified = <<>>
    /\ kept = <<>>

IdleFit ==
    /\ fit_pc = "idle"
    /\ path = <<>>

IdleVectorize ==
    /\ min_area = 0
    /\ simplify_tolerance = 0
    /\ scale = <<1, 1>>
    /\ v_pc = "idle"
    /\ v_contours = <<>>
    /\ v_simplified = <<>>
    /\ svg_paths = <<>>
    /\ stages = <<>>

IdleCalls == calls = [todo |-> <<>>, passed |-> <<>>, returned |-> <<>>]

IdleRecursion ==
    /\ dp_stack = <<>>
    /\ dp_ret = <<>>
    /\ dp_log = <<>>

IdleSimplify ==
    /\ points = <<>>
    /\ IdleDouglasPeucker
    /\ IdleFit

\* The repaired polygons of the first k contours.
RECURSIVE PolygonsOf(_, _)
PolygonsOf(cs, k) ==
    IF k = 0 THEN <<>> ELSE Append(PolygonsOf(cs, k - 1), InputPolygons[cs[k]])

InitGroup ==
    /\ mode = "group"
    /\ contours \in SeqsUpTo(InputContours, MaxContours)
    /\ polys = PolygonsOf(contours, Len(contours))
    /\ pc = "start"
    /\ ret = "none"
    /\ items = <<>>
    /\ parent_pos = <<>>
    /\ depth = <<>>
    /\ groups_map = <<>>
    /\ result = <<>>
    /\ result_indices = <<>>
    /\ IdleTrace
    /\ IdleSimplify
    /\ IdleVectorize
    /\ IdleCalls
    /\ IdleRecursion

\* One call of _group_contours_into_objects.
Classify ==
    /\ mode = "group"
    /\ pc = "start"
    /\ \E r \in {GroupContoursIntoObjects(contours)} :
           /\ ret' = r.ret
           /\ items' = r.items
           /\ parent_pos' = r.parent_pos
           /\ depth' = r.depth
           /\ groups_map' = r.groups_map
           /\ result' = r.groups
           /\ result_indices' = r.indices
    /\ pc' = "done"
    /\ UNCHANGED <<mode, cvars, rvars, contours, polys, tvars, svars, fvars, pvars>>

NextGroup == Classify

SpecGroup == InitGroup /\ [][NextGroup]_vars

\* ================================================================== tracer
\* Largest side of the canvas of a rectangle or frame raster.
MaxSide == 5
\* Largest wall thickness of a frame raster.
MaxThick == 2
\* Largest number of cells of a raster with arbitrary content.
MaxCells == 9

\* dx, dy of _trace_boundary, indexed by direction 0..7.
DX == <<1, 1, 0, -1, -1, -1, 0, 1>>
DY == <<0, 1, 1, 1, 0, -1, -1, -1>>

\* _find_contours runs, called alone or by _vectorize_python.
Tracing == mode \in {"trace", "vectorize", "calls"}

\* padded[y, x] for a position inside the padded array.
Padded(x, y) == IF <<x - 1, y - 1>> \in fg THEN 1 ELSE 0

\* Mutant: the neighbour search takes any cell of the padded array.
InObjectAnyCell(nx, ny) ==
    /\ 0 <= nx /\ nx < w + 2
    /\ 0 <= ny /\ ny < h + 2

\* The bounds test and the foreground test of the neighbour search.
InObject(nx, ny) ==
    /\ 0 <= nx /\ nx < w + 2
    /\ 0 <= ny /\ ny < h + 2
    /\ Padded(nx, ny) = 1

\* Mutant: the search starts ahead, without the turn back.
SearchStartAhead(dir) == dir

\* search_start = (direction + 5) % 8
SearchStart(dir) == (dir + 5) % 8

\* The direction the `for i in range(8)` loop moves in, or None.
FoundDirection(x, y, dir) ==
    LET hits == {i \in 0..7 :
                    LET d == (SearchStart(dir) + i) % 8
                    IN  InObject(x + DX[d + 1], y + DY[d + 1])}
    IN  IF hits = {} THEN None ELSE (SearchStart(dir) + SetMin(hits)) % 8

\* The scan position as padded coordinates.
ScanX == (scan % w) + 1
ScanY == (scan \div w) + 1

\* Mutant: the scan does not look into visited.
StartsTraceRevisited(x, y) == Padded(x, y) = 1 /\ Padded(x - 1, y) = 0

\* padded[y, x] == 1 and padded[y, x - 1] == 0, and (x, y) not in visited
StartsTrace(x, y) ==
    /\ Padded(x, y) = 1
    /\ Padded(x - 1, y) = 0
    /\ <<x, y>> \notin visited

\* Mutant: the padding offset stays in the contour.
RemovePaddingKept(c) == c

\* contour = [(px - 1, py - 1) for px, py in contour]
RemovePadding(c) == [k \in 1..Len(c) |-> <<c[k][1] - 1, c[k][2] - 1>>]

\* Mutant: the scan appends every contour, whatever its length.
CollectAll(cs, c) == Append(cs, RemovePadding(c))

\* if len(contour) >= 3: ... contours.append(contour)
Collect(cs, c) == IF Len(c) >= 3 THEN Append(cs, RemovePadding(c)) ELSE cs

\* Mutant: the safety limit is the size of the raster without its padding.
MaxStepsOfRaster == h * w

\* max_steps = padded.shape[0] * padded.shape[1]
MaxSteps == (h + 2) * (w + 2)

\* The scan passes a cell that starts no trace.
ScanSkip ==
    /\ Tracing /\ t_pc = "scan"
    /\ scan < w * h
    /\ ~StartsTrace(ScanX, ScanY)
    /\ scan' = scan + 1
    /\ UNCHANGED <<mode, cvars, rvars, gvars, svars, fvars, pvars, w, h, fg, t_pc, visited, t_contours, start, cur,
                   direction, steps, contour, traces>>

\* The scan calls _trace_boundary: lines 335-342.
ScanStart ==
    /\ Tracing /\ t_pc = "scan"
    /\ scan < w * h
    /\ StartsTrace(ScanX, ScanY)
    /\ start' = <<ScanX, ScanY>>
    /\ cur' = <<ScanX, ScanY>>
    /\ contour' = << <<ScanX, ScanY>> >>
    /\ visited' = visited \cup {<<ScanX, ScanY>>}
    /\ direction' = 0
    /\ steps' = 0
    /\ t_pc' = "trace"
    /\ UNCHANGED <<mode, cvars, rvars, gvars, svars, fvars, pvars, w, h, fg, scan, t_contours, traces>>

\* One test of `while steps < max_steps` and, when it passes, one iteration
\* of the follow loop.  The trace returns when the loop is left (the bound,
\* or no neighbour found) and when the walk is back on the start cell; the
\* scan then collects the contour and goes on with the next cell.
TraceStep ==
    /\ Tracing /\ t_pc = "trace"
    /\ LET d == FoundDirection(cur[1], cur[2], direction)
           nxt == <<cur[1] + DX[d + 1], cur[2] + DY[d + 1]>>
           returns == steps >= MaxSteps \/ d = None \/ nxt = start
       IN  /\ steps' = IF steps < MaxSteps THEN steps + 1 ELSE steps
           /\ cur' = IF steps < MaxSteps /\ d # None THEN nxt ELSE cur
           /\ direction' = IF steps < MaxSteps /\ d # None THEN d ELSE direction
           /\ contour' = IF returns THEN contour ELSE Append(contour, nxt)
           /\ visited' = IF returns THEN visited ELSE visited \cup {nxt}
           /\ t_pc' = IF returns THEN "scan" ELSE "trace"
           /\ t_contours' = IF returns THEN Collect(t_contours, contour) ELSE t_contours
           /\ scan' = IF returns THEN scan + 1 ELSE scan
           /\ traces' = IF returns
                        THEN Append(traces,
                                    [contour |-> contour,
                                     steps |-> IF steps < MaxSteps THEN steps + 1 ELSE steps,
                                     exit |-> IF steps >= MaxSteps THEN "bound"
                                              ELSE IF d = None THEN "isolated"
                                              ELSE "start"])
                        ELSE traces
    /\ UNCHANGED <<mode, cvars, rvars, gvars, svars, fvars, pvars, w, h, fg, start>>

\* The scan is over: return contours.
ScanEnd ==
    /\ Tracing /\ t_pc = "scan"
    /\ scan >= w * h
    /\ t_pc' = "done"
    /\ UNCHANGED <<mode, cvars, rvars, gvars, svars, fvars, pvars, w, h, fg, scan, visited, t_contours, start, cur,
                   direction, steps, contour, traces>>

\* ------------------------------------------------------------------ rasters
\* A filled rectangle (t = 0) or a frame of wall thickness t on columns
\* x1..x2 and rows y1..y2.
FrameCells(x1, y1, x2, y2, t) ==
    {c \in (x1..x2) \X (y1..y2) :
        \/ t = 0
        \/ c[1] < x1 + t \/ c[1] > x2 - t
        \/ c[2] < y1 + t \/ c[2] > y2 - t}

FrameRasters ==
    {[w |-> p[1], h |-> p[2], fg |-> FrameCells(p[3], p[4], p[5], p[6], p[7])] :
        p \in {q \in (1..MaxSide) \X (1..MaxSide) \X (0..(MaxSide - 1))
                     \X (0..(MaxSide - 1)) \X (0..(MaxSide - 1))
                     \X (0..(MaxSide - 1)) \X (0..MaxThick) :
                 /\ q[3] <= q[5] /\ q[5] < q[1]
                 /\ q[4] <= q[6] /\ q[6] < q[2]
                 /\ q[7] > 0 => /\ q[5] - q[3] >= 2 * q[7]
                                /\ q[6] - q[4] >= 2 * q[7]}}

\* Every raster of at most MaxCells cells, the rasters without cells included.
SmallRasters ==
    UNION {{[w |-> p[1], h |-> p[2], fg |-> s] :
                s \in SUBSET ((0..(p[1] - 1)) \X (0..(p[2] - 1)))} :
            p \in {q \in (0..MaxCells) \X (0..MaxCells) : q[1] * q[2] <= MaxCells}}

IdleGroup ==
    /\ contours = <<>>
    /\ pc = "idle"
    /\ ret = "none"
    /\ items = <<>>
    /\ parent_pos = <<>>
    /\ depth = <<>>
    /\ groups_map = <<>>
    /\ result = <<>>
    /\ result_indices = <<>>
    /\ polys = <<>>

InitTrace ==
    /\ mode = "trace"
    /\ \E r \in FrameRasters \cup SmallRasters :
           /\ w = r.w /\ h = r.h /\ fg = r.fg
    /\ t_pc = "scan"
    /\ scan = 0
    /\ visited = {}
    /\ t_contours = <<>>
    /\ start = <<0, 0>>
    /\ cur = <<0, 0>>
    /\ direction = 0
    /\ steps = 0
    /\ contour = <<>>
    /\ traces = <<>>
    /\ IdleGroup
    /\ IdleSimplify
    /\ IdleVectorize
    /\ IdleCalls
    /\ IdleRecursion

NextTrace == ScanSkip \/ ScanStart \/ TraceStep \/ ScanEnd

SpecTrace == InitTrace /\ [][NextTrace]_vars

\* ================================================================== repeated calls
\* Largest number of cells of a raster passed to one call of a sequence.
MaxCallCells == 4

CallRasters == {r \in SmallRasters : r.w * r.h <= MaxCallCells}

Raster == [w |-> w, h |-> h, fg |-> fg]

\* Mutant: the visited set outlives the call.
FreshVisitedShared(v) == v

\* visited = set() at the head of every call (line 301).
FreshVisited(v) == {}

\* Three calls in one process: on a, on b, and on a once more.
InitCalls ==
    /\ mode = "calls"
    /\ \E a \in CallRasters, b \in CallRasters :
           /\ w = a.w /\ h = a.h /\ fg = a.fg
           /\ calls = [todo |-> <<b, a>>, passed |-> <<a>>, returned |-> <<>>]
    /\ t_pc = "scan"
    /\ scan = 0
    /\ visited = {}
    /\ t_contours = <<>>
    /\ start = <<0, 0>>
    /\ cur = <<0, 0>>
    /\ direction = 0
    /\ steps = 0
    /\ contour = <<>>
    /\ traces = <<>>
    /\ IdleGroup
    /\ IdleSimplify
    /\ IdleVectorize
    /\ IdleRecursion

\* return contours (line 318): the caller has the list.
CallReturns ==
    /\ mode = "calls" /\ t_pc = "done"
    /\ calls' = [calls EXCEPT !.returned = Append(@, t_contours)]
    /\ t_pc' = "returned"
    /\ UNCHANGED <<mode, gvars, svars, fvars, pvars, rvars, w, h, fg, scan, visited,
                   t_contours, start, cur, direction, steps, contour, traces>>

\* The next call of _find_contours: lines 294-302.
CallAgain ==
    /\ mode = "calls" /\ t_pc = "returned"
    /\ calls.todo # <<>>
    /\ \E r \in {Head(calls.todo)} :
           /\ w' = r.w /\ h' = r.h /\ fg' = r.fg
           /\ calls' = [calls EXCEPT !.todo = Tail(@), !.passed = Append(@, r)]
    /\ visited' = FreshVisited(visited)
    /\ t_contours' = <<>>
    /\ scan' = 0
    /\ t_pc' = "scan"
    /\ traces' = <<>>
    /\ UNCHANGED <<mode, gvars, svars, fvars, pvars, rvars, start, cur, direction, steps,
                   contour>>

NextCalls == NextTrace \/ CallReturns \/ CallAgain

SpecCalls == InitCalls /\ [][NextCalls]_vars

\* ================================================================== simplifier
\* Largest x of an input point; the points lie on the rows PointRows.
MaxX == 2
\* Largest number of points of an input sequence.
MaxPoints == 4

PointRows == {0, 1}
\* The tolerances 0, 0.5 and 1, in halves of a unit.
Tolerances == {0, 1, 2}

\* Distances are kept exact, as their squares: a fraction <<num, den>> with
\* den > 0.  The square root the code takes keeps the order of distances.
Greater(d1, d2) == d1[1] * d2[2] > d2[1] * d1[2]

\* Mutant: the distance to the line through the two ends, t not clamped.
PointLineDistanceUnclamped(point, line_start, line_end) ==
    LET ax == point[1] - line_start[1]
        ay == point[2] - line_start[2]
        dx == line_end[1] - line_start[1]
        dy == line_end[2] - line_start[2]
        dot == ax * dx + ay * dy
        len2 == dx * dx + dy * dy
    IN  IF dx = 0 /\ dy = 0 THEN <<ax * ax + ay * ay, 1>>
        ELSE <<(ax * len2 - dot * dx) * (ax * len2 - dot * dx)
                 + (ay * len2 - dot * dy) * (ay * len2 - dot * dy), len2 * len2>>

\* _point_line_distance(point, line_start, line_end), squared.
\* t = dot / len2 clamped to [0, 1]; (px, py) = line_start + t * (dx, dy).
PointLineDistance(point, line_start, line_end) ==
    LET ax == point[1] - line_start[1]
        ay == point[2] - line_start[2]
        dx == line_end[1] - line_start[1]
        dy == line_end[2] - line_start[2]
        dot == ax * dx + ay * dy
        len2 == dx * dx + dy * dy
    IN  IF dx = 0 /\ dy = 0 THEN <<ax * ax + ay * ay, 1>>
        ELSE IF dot <= 0 THEN <<ax * ax + ay * ay, 1>>
        ELSE IF dot >= len2 THEN <<(ax - dx) * (ax - dx) + (ay - dy) * (ay - dy), 1>>
        ELSE <<(ax * len2 - dot * dx) * (ax * len2 - dot * dx)
                 + (ay * len2 - dot * dy) * (ay * len2 - dot * dy), len2 * len2>>

\* The loop `for i in range(1, len(points) - 1)` from position i on, with its
\* two running values.
RECURSIVE FarthestPoint(_, _, _, _)
FarthestPoint(pts, i, max_dist, max_idx) ==
    IF i > Len(pts) - 2 THEN [max_dist |-> max_dist, max_idx |-> max_idx]
    ELSE LET d == PointLineDistance(pts[i + 1], pts[1], pts[Len(pts)])
         IN  IF Greater(d, max_dist)
             THEN FarthestPoint(pts, i + 1, d, i)
             ELSE FarthestPoint(pts, i + 1, max_dist, max_idx)

\* Mutant: `d >= max_dist`, the last of several farthest points wins.
RECURSIVE FarthestPointLast(_, _, _, _)
FarthestPointLast(pts, i, max_dist, max_idx) ==
    IF i > Len(pts) - 2 THEN [max_dist |-> max_dist, max_idx |-> max_idx]
    ELSE LET d == PointLineDistance(pts[i + 1], pts[1], pts[Len(pts)])
         IN  IF ~Greater(max_dist, d) /\ Greater(d, <<0, 1>>)
             THEN FarthestPointLast(pts, i + 1, d, i)
             ELSE FarthestPointLast(pts, i + 1, max_dist, max_idx)

FarthestLast(pts) == FarthestPointLast(pts, 1, <<0, 1>>, 0)

\* Mutant: the loop starts at the second inner point.
FarthestSkippingFirst(pts) == FarthestPoint(pts, 2, <<0, 1>>, 0)

\* max_dist = 0.0; max_idx = 0; for i in range(1, len(points) - 1): ...
Farthest(pts) == FarthestPoint(pts, 1, <<0, 1>>, 0)

\* Mutant: max_dist >= tolerance
ExceedsToleranceOrEqual(max_dist, tol) == ~Greater(<<tol * tol, 4>>, max_dist)

\* max_dist > tolerance
ExceedsTolerance(max_dist, tol) == Greater(max_dist, <<tol * tol, 4>>)

\* Mutant: the split point is returned by both halves.
JoinWhole(left, right) == left \o right

\* left[:-1] + right
Join(left, right) == SubSeq(left, 1, Len(left) - 1) \o right

\* _douglas_peucker(points, tolerance).  It reads only the two coordinates
\* of a point, so that it also runs on points that carry their position.
RECURSIVE DouglasPeucker(_, _)
DouglasPeucker(pts, tol) ==
    IF Len(pts) <= 2 THEN pts
    ELSE LET far == Farthest(pts)
         IN  IF ExceedsTolerance(far.max_dist, tol)
             THEN Join(DouglasPeucker(SubSeq(pts, 1, far.max_idx + 1), tol),
                       DouglasPeucker(SubSeq(pts, far.max_idx + 1, Len(pts)), tol))
             ELSE <<pts[1], pts[Len(pts)]>>

SimplifierPoints == (0..MaxX) \X PointRows

\* The points with their 0-based position as a third component.
RECURSIVE WithPositions(_, _)
WithPositions(pts, k) ==
    IF k = 0 THEN <<>>
    ELSE Append(WithPositions(pts, k - 1), <<pts[k][1], pts[k][2], k - 1>>)

RECURSIVE Component(_, _, _)
Component(pts, c, k) ==
    IF k = 0 THEN <<>> ELSE Append(Component(pts, c, k - 1), pts[k][c])

RECURSIVE WithoutPositions(_, _)
WithoutPositions(pts, k) ==
    IF k = 0 THEN <<>>
    ELSE Append(WithoutPositions(pts, k - 1), <<pts[k][1], pts[k][2]>>)

InitSimplify ==
    /\ mode = "simplify"
    /\ points \in SeqsUpTo(SimplifierPoints, MaxPoints)
    /\ tolerance \in Tolerances
    /\ dp_pc = "start"
    /\ simplified = <<>>
    /\ resimplified = <<>>
    /\ kept = <<>>
    /\ IdleGroup
    /\ IdleTrace
    /\ IdleFit
    /\ IdleVectorize
    /\ IdleCalls
    /\ IdleRecursion

\* One call _douglas_peucker(points, tolerance).
Simplify ==
    /\ mode = "simplify" /\ dp_pc = "start"
    /\ \E r \in {DouglasPeucker(WithPositions(points, Len(points)), tolerance)} :
           /\ simplified' = WithoutPositions(r, Len(r))
           /\ kept' = Component(r, 3, Len(r))
    /\ dp_pc' = "done"
    /\ UNCHANGED <<mode, cvars, rvars, gvars, tvars, fvars, pvars, points, tolerance, resimplified>>

\* A second call, on the result of the first, with the same tolerance.
SimplifyAgain ==
    /\ mode = "simplify" /\ dp_pc = "done"
    /\ resimplified' = DouglasPeucker(simplified, tolerance)
    /\ dp_pc' = "again"
    /\ UNCHANGED <<mode, cvars, rvars, gvars, tvars, fvars, pvars, points, tolerance, simplified, kept>>

NextSimplify == Simplify \/ SimplifyAgain

SpecSimplify == InitSimplify /\ [][NextSimplify]_vars

\* ================================================================== the recursion
\* _douglas_peucker call by call: a frame per running call, holding its
\* argument, the statement it is at ("enter": line 390; "left", "right":
\* waiting for the call of line 408, of line 409), and its locals.
Frame(pts) == [pts |-> pts, at |-> "enter", max_idx |-> 0, left |-> <<>>]

Top == dp_stack[Len(dp_stack)]
Callers == SubSeq(dp_stack, 1, Len(dp_stack) - 1)

\* The points of the calls that are followed step by step: three columns of
\* two rows, enough for two inner points at the same largest distance and
\* for an inner point at a distance equal to a tolerance.
RecursionPoints == (0..2) \X PointRows

InitRecurse ==
    /\ mode = "recurse"
    /\ points \in SeqsUpTo(RecursionPoints, MaxPoints)
    /\ tolerance \in Tolerances
    /\ dp_pc = "start"
    /\ simplified = <<>>
    /\ resimplified = <<>>
    /\ kept = <<>>
    /\ dp_stack = <<>>
    /\ dp_ret = <<>>
    /\ dp_log = <<>>
    /\ IdleGroup
    /\ IdleTrace
    /\ IdleFit
    /\ IdleVectorize
    /\ IdleCalls

\* The caller calls _douglas_peucker(points, tolerance).
RCall ==
    /\ mode = "recurse" /\ dp_pc = "start"
    /\ dp_stack' = <<Frame(points)>>
    /\ dp_pc' = "running"
    /\ UNCHANGED <<mode, gvars, tvars, fvars, pvars, cvars, points, tolerance, simplified,
                   resimplified, kept, dp_ret, dp_log>>

\* The innermost call returns value v.
Returns(v) ==
    /\ dp_stack' = Callers
    /\ dp_ret' = v
    /\ dp_log' = Append(dp_log, [pts |-> Top.pts, ret |-> v])

\* if len(points) <= 2: return points
RShort ==
    /\ mode = "recurse" /\ dp_pc = "running"
    /\ dp_stack # <<>> /\ Top.at = "enter"
    /\ Len(Top.pts) <= 2
    /\ Returns(Top.pts)
    /\ UNCHANGED <<mode, gvars, tvars, fvars, pvars, cvars, points, tolerance, dp_pc,
                   simplified, resimplified, kept>>

\* max_dist > tolerance: the call of line 408 on points[:max_idx + 1].
RSplit ==
    /\ mode = "recurse" /\ dp_pc = "running"
    /\ dp_stack # <<>> /\ Top.at = "enter"
    /\ Len(Top.pts) > 2
    /\ \E far \in {Farthest(Top.pts)} :
           /\ ExceedsTolerance(far.max_dist, tolerance)
           /\ dp_stack' = Append(Append(Callers,
                                        [Top EXCEPT !.at = "left", !.max_idx = far.max_idx]),
                                 Frame(SubSeq(Top.pts, 1, far.max_idx + 1)))
    /\ UNCHANGED <<mode, gvars, tvars, fvars, pvars, cvars, points, tolerance, dp_pc,
                   simplified, resimplified, kept, dp_ret, dp_log>>

\* else: return [start, end]
RCollapse ==
    /\ mode = "recurse" /\ dp_pc = "running"
    /\ dp_stack # <<>> /\ Top.at = "enter"
    /\ Len(Top.pts) > 2
    /\ ~ExceedsTolerance(Farthest(Top.pts).max_dist, tolerance)
    /\ Returns(<<Top.pts[1], Top.pts[Len(Top.pts)]>>)
    /\ UNCHANGED <<mode, gvars, tvars, fvars, pvars, cvars, points, tolerance, dp_pc,
                   simplified, resimplified, kept>>

\* left is assigned; the call of line 409 on points[max_idx:].
RLeft ==
    /\ mode = "recurse" /\ dp_pc = "running"
    /\ dp_stack # <<>> /\ Top.at = "left"
    /\ dp_stack' = Append(Append(Callers, [Top EXCEPT !.at = "right", !.left = dp_ret]),
                          Frame(SubSeq(Top.pts, Top.max_idx + 1, Len(Top.pts))))
    /\ UNCHANGED <<mode, gvars, tvars, fvars, pvars, cvars, points, tolerance, dp_pc,
                   simplified, resimplified, kept, dp_ret, dp_log>>

\* right is assigned; return left[:-1] + right
RRight ==
    /\ mode = "recurse" /\ dp_pc = "running"
    /\ dp_stack # <<>> /\ Top.at = "right"
    /\ Returns(Join(Top.left, dp_ret))
    /\ UNCHANGED <<mode, gvars, tvars, fvars, pvars, cvars, points, tolerance, dp_pc,
                   simplified, resimplified, kept>>

\* The outermost call has returned to the caller.
RDone ==
    /\ mode = "recurse" /\ dp_pc = "running"
    /\ dp_stack = <<>>
    /\ simplified' = dp_ret
    /\ dp_pc' = "done"
    /\ UNCHANGED <<mode, gvars, tvars, fvars, pvars, cvars, rvars, points, tolerance,
                   resimplified, kept>>

NextRecurse == RCall \/ RShort \/ RSplit \/ RCollapse \/ RLeft \/ RRight \/ RDone

SpecRecurse == InitRecurse /\ [][NextRecurse]_vars

\* ================================================================== curve fitter
\* Largest number of points of an input of the curve fitter.
MaxFitPoints == 6

FitterPoints == {<<0, 0>>, <<4, 1>>, <<1, 5>>, <<7, 3>>}

\* f"{v:.2f}" of v = num / den, den > 0: the number of hundredths nearest to
\* v.  The text is the decimal writing of that number.
Format2f(num, den) == (200 * num + den) \div (2 * den)

\* Mutant: inputs of 2 points are not turned away.
TooShortBelowTwo(n) == n < 2

\* if len(points) < 3: return ""
TooShort(n) == n < 3

\* Mutant: 4 points are smoothed.
StraightModeBelowFour(n) == n < 4

\* if n <= 4
StraightMode(n) == n <= 4

\* path = f"M {points[0][0]:.2f},{points[0][1]:.2f}"
MoveTo(p) == [op |-> "M", x |-> Format2f(p[1], 1), y |-> Format2f(p[2], 1)]

\* path += f" L {x:.2f},{y:.2f}"
LineTo(p) == [op |-> "L", x |-> Format2f(p[1], 1), y |-> Format2f(p[2], 1)]

\* The body of `for i in range(1, n)`: the cubic segment of position i.
CurveTo(pts, i) ==
    LET n == Len(pts)
        p0 == pts[((i - 1) % n) + 1]
        p1 == pts[(i % n) + 1]
        p2 == pts[((i + 1) % n) + 1]
        p3 == pts[((i + 2) % n) + 1]
    IN  [op |-> "C",
         cp1x |-> Format2f(6 * p1[1] + (p2[1] - p0[1]), 6),
         cp1y |-> Format2f(6 * p1[2] + (p2[2] - p0[2]), 6),
         cp2x |-> Format2f(6 * p2[1] - (p3[1] - p1[1]), 6),
         cp2y |-> Format2f(6 * p2[2] - (p3[2] - p1[2]), 6),
         x |-> Format2f(p2[1], 1), y |-> Format2f(p2[2], 1)]

\* for x, y in points[1:]: the lines to the positions 1..k-1.
RECURSIVE Lines(_, _)
Lines(pts, k) == IF k <= 1 THEN <<>> ELSE Append(Lines(pts, k - 1), LineTo(pts[k]))

\* for i in range(1, n): the curves of the positions 1..k.
RECURSIVE Curves(_, _)
Curves(pts, k) == IF k < 1 THEN <<>> ELSE Append(Curves(pts, k - 1), CurveTo(pts, k))

\* path += " Z"
ClosePath == [op |-> "Z"]

\* _contour_to_svg_path(points)
ContourToSvgPath(pts) ==
    LET n == Len(pts)
    IN  IF TooShort(n) THEN <<>>
        ELSE <<MoveTo(pts[1])>>
             \o (IF StraightMode(n) THEN Lines(pts, n) ELSE Curves(pts, n - 1))
             \o <<ClosePath>>

InitFit ==
    /\ mode = "fit"
    /\ points \in SeqsUpTo(FitterPoints, MaxFitPoints)
    /\ fit_pc = "start"
    /\ path = <<>>
    /\ IdleDouglasPeucker
    /\ IdleGroup
    /\ IdleTrace
    /\ IdleVectorize
    /\ IdleCalls
    /\ IdleRecursion

\* One call _contour_to_svg_path(points).
Fit ==
    /\ mode = "fit" /\ fit_pc = "start"
    /\ path' = ContourToSvgPath(points)
    /\ fit_pc' = "done"
    /\ UNCHANGED <<mode, cvars, rvars, gvars, tvars, svars, pvars>>

NextFit == Fit

SpecFit == InitFit /\ [][NextFit]_vars

\* ================================================================== raster pipeline
\* _contour_area(contour), doubled: the shoelace sum over the cyclic pairs.
RECURSIVE Shoelace(_, _)
Shoelace(c, k) ==
    IF k = 0 THEN 0
    ELSE LET p == c[k]
             q == c[(k % Len(c)) + 1]
         IN  Shoelace(c, k - 1) + p[1] * q[2] - q[1] * p[2]
ContourArea(c) == IF Len(c) < 3 THEN 0 ELSE Abs(Shoelace(c, Len(c)))

\* contours = [c for c in contours if _contour_area(c) >= min_area]
RECURSIVE FilterByArea(_, _, _)
FilterByArea(cs, k, least) ==
    IF k = 0 THEN <<>>
    ELSE IF ContourArea(cs[k]) >= 2 * least
         THEN Append(FilterByArea(cs, k - 1, least), cs[k])
         ELSE FilterByArea(cs, k - 1, least)

\* for contour in contours: s = _douglas_peucker(...); if len(s) >= 3: append
RECURSIVE SimplifyEach(_, _, _)
SimplifyEach(cs, k, tol) ==
    IF k = 0 THEN <<>>
    ELSE LET sp == DouglasPeucker(cs[k], tol)
         IN  IF Len(sp) >= 3
             THEN Append(SimplifyEach(cs, k - 1, tol), sp)
             ELSE SimplifyEach(cs, k - 1, tol)

\* scaled = [(x * scale_x, y * scale_y) for x, y in contour]
Scaled(c, sc) == [k \in 1..Len(c) |-> <<c[k][1] * sc[1], c[k][2] * sc[2]>>]

\* for contour in simplified: path_d = _contour_to_svg_path(scaled); append
RECURSIVE PathOfEach(_, _, _)
PathOfEach(cs, k, sc) ==
    IF k = 0 THEN <<>>
    ELSE Append(PathOfEach(cs, k - 1, sc), ContourToSvgPath(Scaled(cs[k], sc)))

\* The rasters of the pipeline: rectangles and frames on the largest canvas.
PipelineRasters == {r \in FrameRasters : r.w = MaxSide /\ r.h = MaxSide}

InitVectorize ==
    /\ mode = "vectorize"
    /\ \E r \in PipelineRasters : w = r.w /\ h = r.h /\ fg = r.fg
    /\ min_area \in {0, 4}
    /\ simplify_tolerance \in {0, 2}
    /\ scale \in {<<1, 1>>, <<2, 1>>}
    /\ v_pc = "tracing"
    /\ v_contours = <<>>
    /\ v_simplified = <<>>
    /\ svg_paths = <<>>
    /\ stages = <<>>
    /\ t_pc = "scan"
    /\ scan = 0
    /\ visited = {}
    /\ t_contours = <<>>
    /\ start = <<0, 0>>
    /\ cur = <<0, 0>>
    /\ direction = 0
    /\ steps = 0
    /\ contour = <<>>
    /\ traces = <<>>
    /\ IdleGroup
    /\ IdleSimplify
    /\ IdleCalls
    /\ IdleRecursion

\* contours = _find_contours(pixels) has returned (line 255).
FoundContours ==
    /\ mode = "vectorize" /\ v_pc = "tracing" /\ t_pc = "done"
    /\ v_contours' = t_contours
    /\ stages' = Append(stages, "tracer")
    /\ v_pc' = "traced"
    /\ UNCHANGED <<mode, cvars, rvars, gvars, tvars, svars, fvars, min_area, simplify_tolerance, scale,
                   v_simplified, svg_paths>>

\* The small contours are filtered out (line 258).
FilterSmall ==
    /\ mode = "vectorize" /\ v_pc = "traced"
    /\ v_contours' = FilterByArea(v_contours, Len(v_contours), min_area)
    /\ stages' = Append(stages, "filter")
    /\ v_pc' = "filtered"
    /\ UNCHANGED <<mode, cvars, rvars, gvars, tvars, svars, fvars, min_area, simplify_tolerance, scale,
                   v_simplified, svg_paths>>

\* Every contour is simplified (lines 261-265).
SimplifyContours ==
    /\ mode = "vectorize" /\ v_pc = "filtered"
    /\ v_simplified' = SimplifyEach(v_contours, Len(v_contours), simplify_tolerance)
    /\ stages' = Append(stages, "simplifier")
    /\ v_pc' = "simplified"
    /\ UNCHANGED <<mode, cvars, rvars, gvars, tvars, svars, fvars, min_area, simplify_tolerance, scale,
                   v_contours, svg_paths>>

\* Every simplified contour becomes the path data of a <path> of its own
\* (lines 268-273), and the SVG text is returned.
EmitPaths ==
    /\ mode = "vectorize" /\ v_pc = "simplified"
    /\ svg_paths' = PathOfEach(v_simplified, Len(v_simplified), scale)
    /\ stages' = Append(stages, "fitter")
    /\ v_pc' = "done"
    /\ UNCHANGED <<mode, cvars, rvars, gvars, tvars, svars, fvars, min_area, simplify_tolerance, scale,
                   v_contours, v_simplified>>

NextVectorize ==
    \/ NextTrace
    \/ FoundContours \/ FilterSmall \/ SimplifyContours \/ EmitPaths

SpecVectorize == InitVectorize /\ [][NextVectorize]_vars

\* ================================================================== empty inputs
\* The two entry points that take a collection which may be empty: the
\* classifier and the tracer, each called on its own.
InitGroupTrace == InitGroup \/ InitTrace

NextGroupTrace == NextGroup \/ NextTrace

SpecGroupTrace == InitGroupTrace /\ [][NextGroupTrace]_vars

\* ================================================================== all
Init == InitGroup \/ InitTrace \/ InitSimplify \/ InitFit \/ InitVectorize \/ InitCalls
        \/ InitRecurse

Next == NextGroup \/ NextTrace \/ NextSimplify \/ NextFit \/ NextVectorize \/ NextCalls
        \/ NextRecurse

Spec == Init /\ [][Next]_vars

\* ================================================================== claims
\* ------------------------------------------------------------------ vocabulary
\* A contour the classifier counts as valid: at least 4 points and, after
\* the repair, a polygon that is not empty and has area >= 0.01.
ValidContour(c) ==
    /\ Len(c) >= 4
    /\ ~ItemPoly(c).is_empty
    /\ ItemPoly(c).area2 * 100 >= 512

InputIndices == 0..(Len(contours) - 1)
PolyAt(i) == polys[i + 1]
ValidIndices ==
    {i \in InputIndices :
        /\ Len(contours[i + 1]) >= 4
        /\ ~PolyAt(i).is_empty
        /\ PolyAt(i).area2 * 100 >= 512}

\* The places <<group, member>> of the returned index groups.
Places ==
    UNION {{<<g, m>> : m \in 1..Len(result_indices[g])} : g \in 1..Len(result_indices)}
PlacesOf(i) == {pl \in Places : result_indices[pl[1]][pl[2]] = i}
IsOuter(i) == \E pl \in PlacesOf(i) : pl[2] = 1
IsHole(i) == \E pl \in PlacesOf(i) : pl[2] > 1
\* The input positions of the holes of the group whose outer is i.
HolesOf(i) ==
    {result_indices[pl[1]][pl[2]] :
        pl \in {q \in Places : q[2] > 1 /\ result_indices[q[1]][1] = i}}

\* Polygon p lies strictly inside polygon q.
StrictlyInside(p, q) ==
    /\ q.minx < p.minx /\ p.maxx < q.maxx
    /\ q.miny < p.miny /\ p.maxy < q.maxy

\* The interiors of p and q share no point.
InteriorsDisjoint(p, q) ==
    \/ p.maxx <= q.minx \/ q.maxx <= p.minx
    \/ p.maxy <= q.miny \/ q.maxy <= p.miny

\* Polygon i encloses polygon j: it contains j's representative point.
Encloses(i, j) == Contains(PolyAt(i), RepresentativePoint(PolyAt(j)))

Done == mode = "group" /\ pc = "done"

\* ------------------------------------------------------------------ C1
\* C1: every valid input contour occurs at exactly one place of the returned
\* groups (as an outer or as a hole), and the group holds that contour there.
C1_Partition ==
    Done =>
        \A i \in ValidIndices :
            /\ Cardinality(PlacesOf(i)) = 1
            /\ \A pl \in PlacesOf(i) : result[pl[1]][pl[2]] = contours[i + 1]

\* An outer with its hole, an island of its own and a skipped contour.
C1_Witness ==
    /\ Done /\ ret = "main"
    /\ Len(contours) = MaxContours
    /\ \E i \in ValidIndices : IsHole(i)
    /\ InputIndices # ValidIndices
    /\ Cardinality(ValidIndices) >= 2

\* ------------------------------------------------------------------ C2
\* The number of parent links from position i to its root.
RECURSIVE ParentLinks(_)
ParentLinks(i) == IF i \in DOMAIN parent_pos THEN 1 + ParentLinks(parent_pos[i]) ELSE 0

ItemPositions == 0..(Len(items) - 1)
EvenPositions == {i \in ItemPositions : ParentLinks(i) % 2 = 0}
OddPositions == ItemPositions \ EvenPositions
InputOf(i) == items[i + 1].i

\* C2: on the classifying path there is exactly one group per even-depth
\* polygon, with that polygon as outer and exactly its odd-depth children as
\* holes; no odd-depth polygon is an outer and no even-depth polygon a hole.
C2_DepthParity ==
    (Done /\ ret = "main") =>
        /\ Len(result_indices) = Cardinality(EvenPositions)
        /\ \A i \in EvenPositions :
              /\ Cardinality({k \in 1..Len(result_indices) :
                                 result_indices[k][1] = InputOf(i)}) = 1
              /\ HolesOf(InputOf(i)) =
                    {InputOf(c) : c \in {o \in OddPositions : parent_pos[o] = i}}
              /\ ~IsHole(InputOf(i))
        /\ \A i \in OddPositions : ~IsOuter(InputOf(i)) /\ IsHole(InputOf(i))
        /\ \A pl \in Places : Cardinality(PlacesOf(result_indices[pl[1]][pl[2]])) = 1

\* Three levels of nesting: depths 0, 1 and 2 all occur.
C2_Witness ==
    /\ Done /\ ret = "main"
    /\ \E i \in ItemPositions : ParentLinks(i) = 2
    /\ \E i \in EvenPositions : HolesOf(InputOf(i)) # {}

NestedChain ==
    /\ Len(contours) >= 1
    /\ ValidIndices = InputIndices
    /\ \A i, j \in InputIndices :
          i # j => \/ StrictlyInside(PolyAt(i), PolyAt(j))
                   \/ StrictlyInside(PolyAt(j), PolyAt(i))

\* 1 for the outermost contour of a chain, 2 for the one inside it, ...
ChainRank(i) ==
    1 + Cardinality({j \in InputIndices : j # i /\ StrictlyInside(PolyAt(i), PolyAt(j))})

\* C4: a chain of k nested contours gives ceil(k/2) groups: the contours of
\* odd rank are the outers, each with the contour directly inside it as its
\* only hole, if there is one.
C4_NestedChain ==
    (Done /\ NestedChain) =>
        /\ Len(result_indices) = (Len(contours) + 1) \div 2
        /\ \A i \in InputIndices :
              ChainRank(i) % 2 = 1 =>
                  \E k \in 1..Len(result_indices) :
                      /\ result_indices[k][1] = i
                      /\ \A j \in InputIndices :
                            ChainRank(j) = ChainRank(i) + 1 => result_indices[k] = <<i, j>>
                      /\ ChainRank(i) = Len(contours) => result_indices[k] = <<i>>

\* Outer, hole and island, supplied innermost first.
C4_Witness ==
    /\ Done /\ NestedChain
    /\ Len(contours) = 3
    /\ ChainRank(0) = 3
    /\ Len(result) = 2

\* ------------------------------------------------------------------ C5
\* The input is n >= 2 valid contours none of which encloses another.
Unrelated ==
    /\ Len(contours) >= 2
    /\ ValidIndices = InputIndices
    /\ \A i, j \in InputIndices : i # j => ~Encloses(i, j)

\* C5: n >= 2 contours without any enclosure give n groups of one outer and
\* no hole.
C5_Disjoint ==
    (Done /\ Unrelated) =>
        /\ Len(result_indices) = Len(contours)
        /\ \A k \in 1..Len(result_indices) : Len(result_indices[k]) = 1
        /\ \A i \in InputIndices : IsOuter(i)

C5_Witness ==
    /\ Done /\ Unrelated
    /\ Len(contours) = MaxContours
    /\ Len(result) = MaxContours

\* ------------------------------------------------------------------ C6
\* C6: when every input contour is valid, every hole of every returned group
\* lies strictly inside the outer of its group, and no two holes of one
\* group overlap.
C6_GroupConsistency ==
    (Done /\ ValidIndices = InputIndices) =>
        \A i \in InputIndices :
            \A hl \in HolesOf(i) :
                /\ StrictlyInside(PolyAt(hl), PolyAt(i))
                /\ \A other \in HolesOf(i) :
                      other # hl => InteriorsDisjoint(PolyAt(hl), PolyAt(other))

\* ------------------------------------------------------------------ C7
\* The number of other input polygons that enclose polygon i.
EnclosingCount(i) ==
    Cardinality({j \in ValidIndices : j # i /\ Encloses(j, i)})

NestedOrDisjoint ==
    \A i, j \in ValidIndices :
        i # j => \/ StrictlyInside(PolyAt(i), PolyAt(j))
                 \/ StrictlyInside(PolyAt(j), PolyAt(i))
                 \/ InteriorsDisjoint(PolyAt(i), PolyAt(j))

\* The number of larger input polygons that enclose polygon i.
LargerEnclosingCount(i) ==
    Cardinality({j \in ValidIndices :
                    /\ j # i
                    /\ PolyAt(j).area2 > PolyAt(i).area2
                    /\ Encloses(j, i)})

TDone == mode = "trace" /\ t_pc = "done"

PointSet(c) == {c[k] : k \in 1..Len(c)}

\* The bounding box of a non-empty set of cells, and the cells on its rim.
BoxOf(S) ==
    [minx |-> SetMin({c[1] : c \in S}), maxx |-> SetMax({c[1] : c \in S}),
     miny |-> SetMin({c[2] : c \in S}), maxy |-> SetMax({c[2] : c \in S})]
BoxCells(b) == (b.minx..b.maxx) \X (b.miny..b.maxy)
RimCells(b) ==
    {c \in BoxCells(b) : c[1] \in {b.minx, b.maxx} \/ c[2] \in {b.miny, b.maxy}}

\* The foreground is one filled axis-aligned rectangle.
IsFilledRect == fg # {} /\ fg = BoxCells(BoxOf(fg))

\* The background cells inside the bounding box of the foreground.
HoleCells == BoxCells(BoxOf(fg)) \ fg

\* The foreground is a filled rectangle with one rectangular hole strictly
\* inside it: a ring whose wall is at least one cell thick on every side.
IsRing ==
    /\ fg # {}
    /\ HoleCells # {}
    /\ HoleCells = BoxCells(BoxOf(HoleCells))
    /\ BoxOf(fg).minx < BoxOf(HoleCells).minx /\ BoxOf(HoleCells).maxx < BoxOf(fg).maxx
    /\ BoxOf(fg).miny < BoxOf(HoleCells).miny /\ BoxOf(HoleCells).maxy < BoxOf(fg).maxy

EdgeNeighbours(S) ==
    {c \in fg : \E q \in S : Abs(c[1] - q[1]) + Abs(c[2] - q[2]) = 1}
Neighbours(S) ==
    {c \in fg : \E q \in S : Abs(c[1] - q[1]) <= 1 /\ Abs(c[2] - q[2]) <= 1}

\* ------------------------------------------------------------------ C8
\* C8: the classifier on an empty collection returns no groups and no index
\* groups, and the tracer on a raster without a foreground cell (a raster
\* without cells included) returns no contour.
C8_EmptyInput ==
    /\ (Done /\ contours = <<>>) => (result = <<>> /\ result_indices = <<>>)
    /\ (TDone /\ fg = {}) => t_contours = <<>>

\* A raster of MaxCells background cells, scanned to its end.
C8_Witness ==
    /\ TDone /\ fg = {}
    /\ w > 1 /\ h > 1 /\ scan = w * h /\ w * h >= MaxCells - 1

\* ------------------------------------------------------------------ C9
\* C9 as stated: a filled rectangle of any width and height gives exactly
\* one contour, whose points are the rim cells of the rectangle.
C9_Rectangle ==
    (TDone /\ IsFilledRect) =>
        /\ Len(t_contours) = 1
        /\ PointSet(t_contours[1]) = RimCells(BoxOf(fg))

\* C9 amended: a filled rectangle of at least 3 cells gives exactly one
\* contour, whose points are the rim cells of the rectangle; a rectangle of
\* 1 or 2 cells gives no contour.
C9_RectangleOfThree ==
    (TDone /\ IsFilledRect) =>
        IF Cardinality(fg) >= 3
        THEN /\ Len(t_contours) = 1
             /\ PointSet(t_contours[1]) = RimCells(BoxOf(fg))
        ELSE t_contours = <<>>

\* A rectangle with an interior cell, away from the raster's border.
C9_Witness ==
    /\ TDone /\ IsFilledRect
    /\ BoxOf(fg).maxx - BoxOf(fg).minx >= 2 /\ BoxOf(fg).maxy - BoxOf(fg).miny >= 2
    /\ BoxOf(fg).minx > 0 /\ BoxOf(fg).miny > 0
    /\ Len(t_contours) = 1

\* ------------------------------------------------------------------ C10
\* C10: a ring gives exactly two contours: the first runs over the rim of
\* the outer rectangle, the second over the cells around the hole.
C10_RingTwoContours ==
    (TDone /\ IsRing) =>
        /\ Len(t_contours) = 2
        /\ PointSet(t_contours[1]) = RimCells(BoxOf(fg))
        /\ EdgeNeighbours(HoleCells) \subseteq PointSet(t_contours[2])
        /\ PointSet(t_contours[2]) \subseteq Neighbours(HoleCells)

\* ------------------------------------------------------------------ C11
\* The contours the finished traces returned, the padding offset removed.
RECURSIVE TracedContours(_)
TracedContours(k) ==
    IF k = 0 THEN <<>>
    ELSE Append(TracedContours(k - 1), RemovePadding(traces[k].contour))

Members(sq) == {sq[k] : k \in 1..Len(sq)}

\* C11 as stated: every contour a trace produced, the ones of fewer than 3
\* points included, is in the list _find_contours returns.
C11_ShortRetained ==
    TDone => Members(TracedContours(Len(traces))) \subseteq Members(t_contours)

\* C11 amended: _trace_boundary returns every contour it walked, the
\* 1-point contour of an isolated pixel included, and _find_contours
\* returns, in trace order, exactly the traced contours of at least 3
\* points: the shorter ones are dropped by _find_contours itself.
C11_ShortDropped ==
    TDone =>
        /\ t_contours = SelectSeq(TracedContours(Len(traces)), LAMBDA c : Len(c) >= 3)
        /\ \A k \in 1..Len(traces) :
              traces[k].exit = "isolated" => Len(traces[k].contour) = 1

\* An isolated pixel, a pair and a longer region in one raster.
C11_Witness ==
    /\ TDone
    /\ \E k \in 1..Len(traces) : traces[k].exit = "isolated"
    /\ \E k \in 1..Len(traces) : Len(traces[k].contour) = 2
    /\ Len(t_contours) >= 1

\* ------------------------------------------------------------------ C12
\* No trace makes more than `bound` iterations of the follow loop; a trace
\* that did not end on its start cell or on a pixel without neighbour made
\* exactly `bound` iterations; and the contour returned is the one collected:
\* the start cell and one point for every iteration that moved on.
StopsWithin(bound) ==
    /\ steps <= bound
    /\ \A k \in 1..Len(traces) :
          LET t == traces[k]
          IN  /\ t.steps <= bound
              /\ t.exit = "bound" => t.steps = bound
              /\ Len(t.contour) = IF t.exit = "bound" THEN t.steps + 1 ELSE t.steps

\* C12 as stated: the safety bound of a W x H raster is W*H steps.
C12_BoundOfRaster == mode = "trace" => StopsWithin(w * h)

\* C12 amended: the safety bound is the cell count of the padded raster,
\* (W+2)*(H+2) steps.
C12_BoundOfPadded == mode = "trace" => StopsWithin((w + 2) * (h + 2))

\* A trace that closed after more than W*H steps.
C12_Witness ==
    /\ TDone
    /\ \E k \in 1..Len(traces) :
          /\ traces[k].exit = "start"
          /\ traces[k].steps > w * h
          /\ Len(traces[k].contour) >= 3

\* ------------------------------------------------------------------ simplifier vocabulary
SDone == mode = "simplify" /\ dp_pc \in {"done", "again"}

\* sq occurs in sq2 at increasing positions: match every element of sq with
\* the first position of sq2 after the match of the element before it.
RECURSIVE EmbedsFrom(_, _, _, _)
EmbedsFrom(sq, k, sq2, from) ==
    IF k > Len(sq) THEN TRUE
    ELSE LET hits == {j \in from..Len(sq2) : sq2[j] = sq[k]}
         IN  hits # {} /\ EmbedsFrom(sq, k + 1, sq2, SetMin(hits) + 1)
IsSubsequence(sq, sq2) == EmbedsFrom(sq, 1, sq2, 1)

\* ------------------------------------------------------------------ C13
\* C13: the result of _douglas_peucker starts with the first input point,
\* ends with the last one, occurs in the input at increasing positions and
\* is not longer than the input.
C13_OrderedSubsequence ==
    SDone =>
        /\ Len(simplified) <= Len(points)
        /\ IsSubsequence(simplified, points)
        /\ points = <<>> => simplified = <<>>
        /\ points # <<>> => /\ simplified # <<>>
                            /\ simplified[1] = points[1]
                            /\ simplified[Len(simplified)] = points[Len(points)]

\* A split: one inner point was kept and the one before it dropped.
C13_Witness ==
    /\ SDone
    /\ Len(points) = MaxPoints
    /\ Len(simplified) = MaxPoints - 1
    /\ simplified[2] # points[2]
    /\ tolerance > 0

\* ------------------------------------------------------------------ C14
KeptPositions == {kept[k] : k \in 1..Len(kept)}
DroppedPositions == (0..(Len(points) - 1)) \ KeptPositions
KeptBefore(i) == SetMax({j \in KeptPositions : j < i})
KeptAfter(i) == SetMin({j \in KeptPositions : j > i})

\* The squared distance of p from the finite segment a-b, as a fraction: the
\* distance to the nearer end when the foot of the perpendicular falls
\* outside the segment, the length of the perpendicular otherwise.
SegmentDistance(p, a, b) ==
    LET abx == b[1] - a[1]
        aby == b[2] - a[2]
        apx == p[1] - a[1]
        apy == p[2] - a[2]
        bpx == p[1] - b[1]
        bpy == p[2] - b[2]
        cross == abx * apy - aby * apx
    IN  IF apx * abx + apy * aby <= 0 THEN <<apx * apx + apy * apy, 1>>
        ELSE IF bpx * abx + bpy * aby >= 0 THEN <<bpx * bpx + bpy * bpy, 1>>
        ELSE <<cross * cross, abx * abx + aby * aby>>

DroppedDistance(i) ==
    SegmentDistance(points[i + 1], points[KeptBefore(i) + 1], points[KeptAfter(i) + 1])

\* C14: every dropped input point lies within the tolerance of the segment
\* between the nearest retained points before and after it.
C14_Fidelity ==
    SDone =>
        \A i \in DroppedPositions :
            ~Greater(DroppedDistance(i), <<tolerance * tolerance, 4>>)

\* A point off the segment is dropped next to a point that is kept.
C14_Witness ==
    /\ SDone
    /\ Len(kept) >= 3
    /\ \E i \in DroppedPositions : Greater(DroppedDistance(i), <<0, 1>>)

\* ------------------------------------------------------------------ C15
\* C15: simplifying the result of _douglas_peucker once more, with the same
\* tolerance, returns it unchanged.
C15_Idempotent ==
    (mode = "simplify" /\ dp_pc = "again") => resimplified = simplified

\* The second call had a point to drop or to keep: the first result has an
\* inner point, and the first call dropped a point.
C15_Witness ==
    /\ mode = "simplify" /\ dp_pc = "again"
    /\ Len(simplified) >= 3
    /\ Len(simplified) < Len(points)
    /\ tolerance > 0

\* ------------------------------------------------------------------ curve fitter vocabulary
FDone == mode = "fit" /\ fit_pc = "done"

\* Command k of the path is `op` with the end point p.
EndsAt(k, op, p) ==
    /\ path[k].op = op
    /\ path[k].x = 100 * p[1]
    /\ path[k].y = 100 * p[2]

\* The positions of the path's cubic segments.
CubicPositions == {k \in 1..Len(path) : path[k].op = "C"}

\* ------------------------------------------------------------------ C16
\* C16: an input of 3 or 4 points gives a move to the first point followed
\* only by lines through the other points in input order; an input of 5 or
\* more points gives only cubic segments after the move.
C16_StraightMode ==
    FDone =>
        /\ Len(points) \in {3, 4} =>
              /\ Len(path) = Len(points) + 1
              /\ EndsAt(1, "M", points[1])
              /\ \A k \in 2..Len(points) : EndsAt(k, "L", points[k])
        /\ Len(points) >= 5 =>
              /\ EndsAt(1, "M", points[1])
              /\ \A k \in 2..(Len(path) - 1) : path[k].op = "C"
              /\ CubicPositions # {}

\* Four different points, written as three lines.
C16_Witness ==
    /\ FDone
    /\ Len(points) = 4
    /\ Cardinality({points[k] : k \in 1..4}) = 4
    /\ \A k \in 2..4 : path[k].op = "L"

\* ------------------------------------------------------------------ C17
\* C17: an input of n > 4 points gives exactly n cubic segments, and the
\* segment of p_k, the cubic number k + 1 of the path, runs from p_k to
\* p_((k+1) mod n).
C17_WrapAround ==
    (FDone /\ Len(points) > 4) =>
        /\ Cardinality(CubicPositions) = Len(points)
        /\ \A k \in 0..(Len(points) - 1) :
              /\ path[k + 1].x = 100 * points[k + 1][1]
              /\ path[k + 1].y = 100 * points[k + 1][2]
              /\ EndsAt(k + 2, "C", points[((k + 1) % Len(points)) + 1])

\* ------------------------------------------------------------------ C18
\* The tangent with which cubic k arrives at its end point is the tangent
\* with which cubic j leaves the point `from` it starts at.
SmoothJunction(k, j, from) ==
    /\ path[k].x - path[k].cp2x = path[j].cp1x - path[from].x
    /\ path[k].y - path[k].cp2y = path[j].cp1y - path[from].y

\* The junctions between two cubics that follow each other.
InnerJunctionsSmooth ==
    \A k \in CubicPositions :
        (k + 1) \in CubicPositions => SmoothJunction(k, k + 1, k)

\* C18: in curve mode the tangents agree at every junction of two segments,
\* the junction at the starting point, where the last cubic meets the first,
\* included.
C18_Continuity ==
    (FDone /\ Len(points) > 4) =>
        /\ InnerJunctionsSmooth
        /\ SmoothJunction(Len(path) - 1, 2, 1)

\* ------------------------------------------------------------------ C19
\* The path begins with the move to the first input point, ends with the
\* close instruction and holds no other move or close.
MoveFirstCloseLast ==
    /\ Len(path) >= 2
    /\ EndsAt(1, "M", points[1])
    /\ path[Len(path)].op = "Z"
    /\ \A k \in 2..(Len(path) - 1) : path[k].op \in {"L", "C"}

\* C19 as stated: for every input point sequence the path begins with the
\* move to the first input point and ends with the close instruction.
C19_AlwaysClosed == (FDone /\ points # <<>>) => MoveFirstCloseLast

\* C19 amended: so it is for every input of at least 3 points, in straight
\* and in curve mode; for an input of fewer than 3 points the path is empty.
C19_ClosedFromThree ==
    FDone => IF Len(points) >= 3 THEN MoveFirstCloseLast ELSE path = <<>>

\* A path in curve mode.
C19_Witness ==
    /\ FDone
    /\ Len(points) = MaxFitPoints
    /\ CubicPositions # {}
    /\ path[Len(path)].op = "Z"

\* ------------------------------------------------------------------ C20
VDone == mode = "vectorize" /\ v_pc = "done"

\* The stages _vectorize_python ran, the area filter left aside.
MainStages == SelectSeq(stages, LAMBDA st : st # "filter")

\* C20: the pipeline runs tracer, simplifier, region classifier and curve
\* fitter in this order, and for a ring it ends with 2 traced contours,
\* 1 group of a shell with 1 hole, and the 2 closed paths of that group.
C20_PipelineOrder ==
    VDone =>
        /\ MainStages = <<"tracer", "simplifier", "classifier", "fitter">>
        /\ IsRing =>
            /\ Len(t_contours) = 2
            /\ Len(result) = 1 /\ Len(result[1]) = 2
            /\ Len(svg_paths) = 2
            /\ \A k \in 1..Len(svg_paths) :
                   svg_paths[k] # <<>> /\ svg_paths[k][Len(svg_paths[k])].op = "Z"

\* ------------------------------------------------------------------ C21
\* C21: in a sequence of calls of _find_contours the raster of the running
\* call is the raster that was passed, and two calls on the same raster
\* return the same contour list, whatever was called in between; the first
\* call of a sequence is an isolated call.
C21_Stateless ==
    mode = "calls" =>
        /\ Raster = calls.passed[Len(calls.passed)]
        /\ \A i \in 1..Len(calls.returned), j \in 1..Len(calls.returned) :
               calls.passed[i] = calls.passed[j] => calls.returned[i] = calls.returned[j]

\* The third call has returned a contour, after a call on another raster
\* that returned one too.
C21_Witness ==
    /\ mode = "calls" /\ Len(calls.returned) = 3
    /\ calls.passed[1] # calls.passed[2]
    /\ calls.returned[3] # <<>> /\ calls.returned[2] # <<>>
    /\ calls.returned[2] # calls.returned[3]

\* ------------------------------------------------------------------ C22
Positions == 0..(Len(items) - 1)

\* The positions before i whose polygon contains the representative point
\* of the polygon at position i.
Candidates(i) ==
    {j \in Positions :
        j < i /\ Contains(items[j + 1].poly, RepresentativePoint(items[i + 1].poly))}

\* C22: the polygons are in descending order of area; a polygon with a
\* candidate has a candidate of the smallest area as its parent, and a
\* polygon without a candidate has no parent and depth 0.
C22_ParentSelection ==
    (Done /\ ret = "main") =>
        /\ \A i \in Positions :
              i > 0 => items[i].poly.area2 >= items[i + 1].poly.area2
        /\ \A i \in Positions :
              IF Candidates(i) = {}
              THEN i \notin DOMAIN parent_pos /\ depth[i] = 0
              ELSE /\ i \in DOMAIN parent_pos
                   /\ parent_pos[i] \in Candidates(i)
                   /\ \A j \in Candidates(i) :
                         items[parent_pos[i] + 1].poly.area2 <= items[j + 1].poly.area2

\* A polygon with two candidates of different areas, after a later root.
C22_Witness ==
    /\ Done /\ ret = "main"
    /\ \E i \in Positions :
          \E j \in Candidates(i), k \in Candidates(i) :
              items[j + 1].poly.area2 < items[k + 1].poly.area2
    /\ \E i \in Positions : i > 0 /\ Candidates(i) = {}

\* ------------------------------------------------------------------ C23
\* The positions the depth loop passes when it starts at i, as the walk of
\* `while current in parent_pos` makes them; the walk stops after `fuel`
\* steps when it has not reached a root by then.
RECURSIVE ParentWalk(_, _)
ParentWalk(current, fuel) ==
    IF current \notin DOMAIN parent_pos \/ fuel = 0 THEN <<current>>
    ELSE <<current>> \o ParentWalk(parent_pos[current], fuel - 1)

\* C23: parent_pos maps a position to one earlier position, so the walk
\* from any position goes strictly down, ends at a root within n - 1 steps,
\* and the depth is the number of its steps.
C23_Forest ==
    (Done /\ ret = "main") =>
        /\ DOMAIN parent_pos \subseteq Positions
        /\ \A i \in DOMAIN parent_pos : parent_pos[i] \in Positions /\ parent_pos[i] < i
        /\ \A i \in Positions :
              LET walk == ParentWalk(i, Len(items))
              IN  /\ walk[Len(walk)] \notin DOMAIN parent_pos
                  /\ Len(walk) <= i + 1
                  /\ depth[i] = Len(walk) - 1

\* A walk of two steps: a polygon whose parent has a parent.
C23_Witness ==
    /\ Done /\ ret = "main"
    /\ \E i \in Positions : depth[i] = 2 /\ Len(ParentWalk(i, Len(items))) = 3

\* ------------------------------------------------------------------ C24
\* The place of a padded cell in the row-major scan.
ScanIndex(c) == (c[2] - 1) * w + (c[1] - 1)

\* The cells the scan has passed that are foreground right of a background
\* cell.
PassedEdgeCells ==
    {c \in (1..w) \X (1..h) :
        /\ ScanIndex(c) < scan
        /\ Padded(c[1], c[2]) = 1 /\ Padded(c[1] - 1, c[2]) = 0}

TraceStarts == {traces[k].contour[1] : k \in 1..Len(traces)}

\* The cells of the traces that started before the scan reached cell c.
TracedBefore(c) ==
    UNION {Members(traces[k].contour) :
              k \in {j \in 1..Len(traces) : ScanIndex(traces[j].contour[1]) < ScanIndex(c)}}

\* C24: the cells that started a trace are exactly the passed foreground
\* cells right of a background cell that no earlier trace of the call had
\* visited, and no returned contour starts on a cell of a contour returned
\* before it.
C24_StartRule ==
    mode = "trace" =>
        /\ TraceStarts = {c \in PassedEdgeCells : c \notin TracedBefore(c)}
        /\ \A k \in 1..Len(t_contours), j \in 1..Len(t_contours) :
              j < k => t_contours[k][1] \notin Members(t_contours[j])

\* A second trace has started, and the scan has passed a foreground cell
\* right of a background cell without starting a trace there.
C24_Witness ==
    /\ TDone
    /\ Len(t_contours) >= 2
    /\ PassedEdgeCells \ TraceStarts # {}

\* ------------------------------------------------------------------ recursion
AllReturned == mode = "recurse" /\ dp_pc = "done"

\* The call by call run returns what the function returns.
RecursionIsFunction == AllReturned => simplified = DouglasPeucker(points, tolerance)

\* ------------------------------------------------------------------ C25
\* The distance of the inner point at position i to the segment from the
\* first to the last point, and the inner positions where it is largest.
InnerPositions(pts) == 1..(Len(pts) - 2)
InnerDistance(pts, i) == PointLineDistance(pts[i + 1], pts[1], pts[Len(pts)])
FarthestPositions(pts) ==
    {i \in InnerPositions(pts) :
        \A j \in InnerPositions(pts) : ~Greater(InnerDistance(pts, j), InnerDistance(pts, i))}
FirstFarthest(pts) == SetMin(FarthestPositions(pts))

\* The largest inner distance is strictly greater than the tolerance.
AboveTolerance(pts) ==
    Greater(InnerDistance(pts, FirstFarthest(pts)), <<tolerance * tolerance, 4>>)

LoggedCalls == {dp_log[k] : k \in 1..Len(dp_log)}

\* C25: a call on more than 2 points whose largest inner distance is above
\* the tolerance returns what the call on the left part up to the first
\* farthest point returned, without its last point, followed by what the
\* call on the right part from that point returned; otherwise it returns
\* the first and the last point.
C25_SplitOrCollapse ==
    mode = "recurse" =>
        \A c \in LoggedCalls :
            Len(c.pts) > 2 =>
                LET m == FirstFarthest(c.pts)
                    n == Len(c.pts)
                IN  IF AboveTolerance(c.pts)
                    THEN \E l \in LoggedCalls, r \in LoggedCalls :
                            /\ l.pts = SubSeq(c.pts, 1, m + 1)
                            /\ r.pts = SubSeq(c.pts, m + 1, n)
                            /\ c.ret = SubSeq(l.ret, 1, Len(l.ret) - 1) \o r.ret
                    ELSE c.ret = <<c.pts[1], c.pts[n]>>

\* A call that split where two farthest points tie, one of whose parts
\* collapsed at a distance equal to the tolerance.
C25_Witness ==
    /\ AllReturned /\ tolerance > 0
    /\ \E c \in LoggedCalls :
          /\ Len(c.pts) > 2 /\ AboveTolerance(c.pts)
          /\ Cardinality(FarthestPositions(c.pts)) >= 2
    /\ \E c \in LoggedCalls :
          /\ Len(c.pts) > 2 /\ ~AboveTolerance(c.pts)
          /\ ~Greater(<<tolerance * tolerance, 4>>,
                      InnerDistance(c.pts, FirstFarthest(c.pts)))

\* ------------------------------------------------------------------ C30
\* The calls made so far: the returned ones and the running ones.
CallsMade == Len(dp_log) + Len(dp_stack)

\* The most calls a call on n points can make: itself, and, when it splits
\* at position m, those of the calls on m + 1 and on n - m points.
MostCalls(n) == IF n <= 2 THEN 1 ELSE 2 * n - 3

\* C30: a call that has recursed has its split position strictly between
\* its first and its last position, and the call it waits for has at least
\* 2 points and fewer points than it; the calls made stay within
\* MostCalls, and a run that has not returned to its caller can always take
\* a step, so that every run ends.
C30_Terminates ==
    mode = "recurse" =>
        /\ \A k \in 1..(Len(dp_stack) - 1) :
              LET f == dp_stack[k]
                  g == dp_stack[k + 1]
              IN  /\ f.at \in {"left", "right"}
                  /\ 0 < f.max_idx /\ f.max_idx < Len(f.pts) - 1
                  /\ 2 <= Len(g.pts) /\ Len(g.pts) < Len(f.pts)
                  /\ g.pts = IF f.at = "left"
                             THEN SubSeq(f.pts, 1, f.max_idx + 1)
                             ELSE SubSeq(f.pts, f.max_idx + 1, Len(f.pts))
        /\ CallsMade <= MostCalls(Len(points))
        /\ dp_pc = "done" \/ ENABLED NextRecurse

\* The deepest recursion of the longest input: every inner point kept.
C30_Witness ==
    /\ AllReturned
    /\ Len(points) = MaxPoints
    /\ Len(dp_log) = MostCalls(MaxPoints)
    /\ simplified = points

\* ------------------------------------------------------------------ C26
\* C26: every finished trace ended on an isolated pixel or by stepping back
\* onto its start cell, never by the safety bound; every iteration of a
\* running trace has appended a cell, and the contour stays below the bound.
C26_EveryTraceCloses ==
    mode = "trace" =>
        /\ \A k \in 1..Len(traces) : traces[k].exit \in {"isolated", "start"}
        /\ t_pc = "trace" => steps < Len(contour) + 1 /\ Len(contour) < MaxSteps

\* A walk longer than the raster has cells that closed, and an isolated
\* pixel, in one scan.
C26_Witness ==
    /\ TDone
    /\ \E k \in 1..Len(traces) : traces[k].exit = "start" /\ traces[k].steps > w * h
    /\ \E k \in 1..Len(traces) : traces[k].exit = "isolated"

\* ------------------------------------------------------------------ C27
\* Two cells are different and touch by a side or a corner.
EightNeighbours(p, q) ==
    /\ p # q
    /\ Abs(p[1] - q[1]) <= 1 /\ Abs(p[2] - q[2]) <= 1

\* C27: every point of a returned contour is a foreground cell inside the
\* raster, consecutive points are 8-neighbours, and the first point occurs
\* nowhere else in the contour.
C27_BoundaryWalkCells ==
    mode = "trace" =>
        \A k \in 1..Len(t_contours) :
            LET c == t_contours[k]
            IN  /\ \A m \in 1..Len(c) :
                      /\ 0 <= c[m][1] /\ c[m][1] < w
                      /\ 0 <= c[m][2] /\ c[m][2] < h
                      /\ c[m] \in fg
                /\ \A m \in 1..(Len(c) - 1) : EightNeighbours(c[m], c[m + 1])
                /\ \A m \in 2..Len(c) : c[m] # c[1]

\* A contour that passes one of its cells twice, in a raster whose
\* foreground touches the last column and the last row.
C27_Witness ==
    /\ TDone
    /\ \E k \in 1..Len(t_contours) :
          Cardinality(Members(t_contours[k])) < Len(t_contours[k])
    /\ \E c \in fg : c[1] = w - 1
    /\ \E c \in fg : c[2] = h - 1

\* ------------------------------------------------------------------ C28
\* C28: whatever return statement was taken, the groups and the index
\* groups have the same shape, every index is a position of the input, the
\* contour at a place of the groups is the input contour at the index of
\* that place, and no index occurs at two places.
C28_IndicesMirrorGroups ==
    Done =>
        /\ Len(result) = Len(result_indices)
        /\ \A k \in 1..Len(result) : Len(result[k]) = Len(result_indices[k])
        /\ \A k \in 1..Len(result_indices) :
              \A m \in 1..Len(result_indices[k]) :
                  /\ result_indices[k][m] \in InputIndices
                  /\ result[k][m] = contours[result_indices[k][m] + 1]
        /\ \A k1 \in 1..Len(result_indices), k2 \in 1..Len(result_indices) :
              \A m1 \in 1..Len(result_indices[k1]), m2 \in 1..Len(result_indices[k2]) :
                  result_indices[k1][m1] = result_indices[k2][m2] => (k1 = k2 /\ m1 = m2)

\* The main return with a group of an outer and a hole, the first input
\* contour skipped.
C28_Witness ==
    /\ Done /\ ret = "main"
    /\ \E k \in 1..Len(result_indices) : Len(result_indices[k]) = 2
    /\ 0 \notin ValidIndices
    /\ Len(contours) = MaxContours

\* ------------------------------------------------------------------ C29
\* The orders the contours of the call can be supplied in.
Orders(n) == {f \in [1..n -> 1..n] : \A a \in 1..n, b \in 1..n : f[a] = f[b] => a = b}
Permuted(f) == [k \in 1..Len(contours) |-> contours[f[k]]]

\* The groups as a set: each group is its outer contour with the set of its
\* hole contours.
GroupSet(groups) ==
    {[outer |-> groups[k][1],
      holes |-> {groups[k][m] : m \in 2..Len(groups[k])}] : k \in 1..Len(groups)}

\* C29: supplied in any other order, the contours give the same set of
\* groups, each with the same outer contour and the same set of holes.
C29_OrderIndependent ==
    (Done /\ ret = "main") =>
        \A f \in Orders(Len(contours)) :
            GroupSet(GroupContoursIntoObjects(Permuted(f)).groups) = GroupSet(result)

====
